---- MODULE Spec2Model ----
(***************************************************************************)
(* Model of fixpoint.js: the generic fixed point iteration engine          *)
(* (iterate), its convergence tests, the argument validation and the five  *)
(* public entry points (iterate, picard, krasnoselskii, mann, ishikawa).   *)
(*                                                                         *)
(* Numbers.  A JavaScript number is modelled on a bounded integer grid:    *)
(* the finite numbers are -MaxFinite..MaxFinite, a result beyond the grid  *)
(* overflows to +Infinity or -Infinity, and NaN is a value of its own.     *)
(* Tolerances are exact rationals num/den.                                 *)
(***************************************************************************)
EXTENDS Integers, Sequences, FiniteSets

\* ------------------------------------------------------------- bounds
\* largest finite number of the grid (beyond it a result overflows)
MaxFinite == 4
\* the model follows a run for at most MaxN loop iterations
MaxN == 4
\* fraction bits of the floating point format (52 in a double)
FractionBits == 24
\* exponent of the smallest normal number, 2^-MinNormalBits (1022 in a double)
MinNormalBits == 10

\* ------------------------------------------------------------- numbers
PosInf == MaxFinite + 1
NegInf == 0 - (MaxFinite + 1)
NaN == MaxFinite + 2

Finite == (0 - MaxFinite)..MaxFinite

IsReal(a) == a \in Finite
IsInfinite(a) == a \in {PosInf, NegInf}

\* rounding of an exact result to the grid
Round(r) == IF r > MaxFinite THEN PosInf ELSE IF r < 0 - MaxFinite THEN NegInf ELSE r

Sign(a) == IF a > 0 THEN 1 ELSE IF a < 0 THEN 0 - 1 ELSE 0

\* unary minus
Neg(a) == IF a = NaN THEN NaN ELSE 0 - a

\* a + b
Add(a, b) ==
    IF a = NaN \/ b = NaN THEN NaN
    ELSE IF IsInfinite(a) /\ IsInfinite(b) THEN (IF a = b THEN a ELSE NaN)
    ELSE IF IsInfinite(a) THEN a
    ELSE IF IsInfinite(b) THEN b
    ELSE Round(a + b)

\* a - b
Sub(a, b) == Add(a, Neg(b))

\* a * b
Mul(a, b) ==
    IF a = NaN \/ b = NaN THEN NaN
    ELSE IF IsInfinite(a) \/ IsInfinite(b)
         THEN (IF a = 0 \/ b = 0 THEN NaN
               ELSE IF Sign(a) * Sign(b) > 0 THEN PosInf ELSE NegInf)
    ELSE Round(a * b)

\* Math.abs
Abs(a) == IF a = NaN THEN NaN ELSE IF a < 0 THEN 0 - a ELSE a

\* a === b on numbers: NaN equals nothing, itself included
StrictEq(a, b) == a # NaN /\ b # NaN /\ a = b

RECURSIVE Pow2(_)
Pow2(k) == IF k = 0 THEN 1 ELSE 2 * Pow2(k - 1)

\* Number.MACHINE_EPSILON is 1 / MachineEpsilonDen: the loop halves eps while
\* 1 + eps/2 is still distinguishable from 1, i.e. while eps/2 >= 2^-FractionBits
RECURSIVE EpsilonLoop(_)
EpsilonLoop(den) == IF 2 * den <= Pow2(FractionBits) THEN EpsilonLoop(2 * den) ELSE den
MachineEpsilonDen == EpsilonLoop(1)

\* ------------------------------------------------------------- JS values
\* an argument as the caller passes it: t is its typeof (plus the special
\* numbers), num/den its value when it is a finite number (num is the arity
\* when it is a function, 0/1 when it is a boolean), id names a function
JS(t, num, den, id) == [t |-> t, num |-> num, den |-> den, id |-> id]
Undefined == JS("undefined", 0, 1, "")
JSNaN == JS("nan", 0, 1, "")
JSInf == JS("inf", 0, 1, "")
JSString == JS("string", 0, 1, "")
JSNum(num, den) == JS("number", num, den, "")
JSBool(b) == JS("boolean", IF b THEN 1 ELSE 0, 1, "")
JSFun(arity, id) == JS("function", arity, 1, id)

\* typeof v === 'number'
IsNumberType(v) == v.t \in {"number", "nan", "inf"}

\* Number.isFinite: the host's own when it has one, the polyfill otherwise;
\* the polyfill rejects non-numbers and the two infinities only
IsFiniteJS(native, v) ==
    IF native THEN v.t = "number"
    ELSE IsNumberType(v) /\ v.t # "inf"

\* Number.isFinite on a value of the sequence
IsFiniteNum(native, a) ==
    IF native THEN IsReal(a)
    ELSE ~IsInfinite(a)

\* the grid number a numeric argument denotes (x0 is an integer of the grid)
ToNum(v) == IF v.t = "nan" THEN NaN ELSE IF v.t = "inf" THEN PosInf ELSE v.num

\* ------------------------------------------------------------- convergence tests
\* err <= maxError * (1 + |x|), maxError the rational num/den (or NaN)
WithinMixed(err, maxError, x) ==
    IF err = NaN \/ x = NaN \/ maxError.t # "number" THEN FALSE
    ELSE IF IsInfinite(x) THEN TRUE
    ELSE IF IsInfinite(err) THEN FALSE
    ELSE err * maxError.den <= maxError.num * (1 + Abs(x))

mixedErrorTest(maxError, x, xp1, xp2) ==
    IF StrictEq(x, xp1) THEN TRUE
    ELSE WithinMixed(Add(Abs(Sub(x, xp1)), Abs(Sub(xp1, xp2))), maxError, x)

absoluteErrorTest(maxError, a, b) ==
    LET d == Abs(Sub(a, b))
    IN  /\ d # NaN
        /\ maxError.t = "number"
        /\ ~IsInfinite(d)
        /\ d * maxError.den <= maxError.num

\* Number.MIN_NORMAL is 1 / MinNormalDen
MinNormalDen == Pow2(MinNormalBits)

\* Math.max
Max(a, b) == IF a = NaN \/ b = NaN THEN NaN ELSE IF a >= b THEN a ELSE b

\* diff < maxError * Number.MIN_NORMAL, for a finite diff (the first test
\* keeps the product small: MinNormalDen >= 1)
BelowMinNormal(diff, maxError) ==
    /\ diff * maxError.den < maxError.num
    /\ diff * maxError.den * MinNormalDen < maxError.num

\* variant of relativeErrorTest: without the a === b shortcut
relativeErrorTestNoShortcut(maxError, a, b) ==
    LET diff == Abs(Sub(a, b))
        m == Max(Abs(a), Abs(b))
    IN  IF diff = NaN \/ IsInfinite(diff) \/ maxError.t # "number" THEN FALSE
        ELSE IF BelowMinNormal(diff, maxError) THEN TRUE
        ELSE diff * maxError.den < maxError.num * m

relativeErrorTest(maxError, a, b) ==
    IF StrictEq(a, b) THEN TRUE
    ELSE LET diff == Abs(Sub(a, b))
             m == Max(Abs(a), Abs(b))
         IN  IF diff = NaN \/ IsInfinite(diff) \/ maxError.t # "number" THEN FALSE
             ELSE IF BelowMinNormal(diff, maxError) THEN TRUE
             ELSE diff * maxError.den < maxError.num * m

\* ------------------------------------------------------------- messages
Msg(text, i, n) == [text |-> text, i |-> i, n |-> n]
NoMsg == Msg("", 0, 0)
MaxIterMsg == Msg("Maximum number of iterations was reached.", 0, 0)
DivergentMsg == Msg("Iteration is divergent (numerical error).", 0, 0)
CycleMsg(i, n) == Msg("Iteration is divergent (cycle detected between iterations #i and #n).", i, n)

\* the object a validation throws
Throw(text, arg) == [errorMessage |-> Msg(text, 0, 0), errorArgument |-> arg]
NoThrow == Throw("", "")

\* ------------------------------------------------------------- validation
validatefx0(native, f, nargs, x0) ==
    IF f.t # "function" THEN Throw("A function is expected.", "f")
    ELSE IF f.num # nargs
         THEN (IF nargs = 1
               THEN Throw("The function should have exactly 1 argument.", "f")
               ELSE Throw("The function should have exactly nargs arguments.", "f"))
    ELSE IF ~IsFiniteJS(native, x0) THEN Throw("A finite real number is expected.", "x0")
    ELSE NoThrow

\* v != null
Given(v) == v.t # "undefined"

defaultOptions ==
    [maxError |-> JSNum(1, 10000000),
     maxSteps |-> JSNum(1000, 1),
     checkCycles |-> JSBool(TRUE),
     convergenceTest |-> JSFun(4, "mixed")]

knownOptions == {"maxError", "maxSteps", "checkCycles", "convergenceTest"}

\* v <= 0, v < machine epsilon, v < 1 for what passed Number.isFinite (a
\* comparison with NaN is false)
LeZero(v) == v.t = "number" /\ v.num <= 0
BelowEpsilon(v) == v.t = "number" /\ v.num * MachineEpsilonDen < v.den
BelowOne(v) == v.t = "number" /\ v.num < v.den

validateMaxError(native, options) ==
    IF ~Given(options.maxError) THEN NoThrow
    ELSE IF ~IsFiniteJS(native, options.maxError)
         THEN Throw("A finite positive real number is expected.", "options.maxError")
    ELSE IF LeZero(options.maxError)
         THEN Throw("A positive real number is expected.", "options.maxError")
    ELSE IF BelowEpsilon(options.maxError)
         THEN Throw("A positive real number greater than machine epsilon is expected.",
                    "options.maxError")
    ELSE NoThrow

validateMaxSteps(native, options) ==
    IF ~Given(options.maxSteps) THEN NoThrow
    ELSE IF ~IsFiniteJS(native, options.maxSteps)
         THEN Throw("A finite number is expected.", "options.maxSteps")
    ELSE IF BelowOne(options.maxSteps)
         THEN Throw("A number greater than 1 is expected.", "options.maxSteps")
    ELSE NoThrow

validateCheckCycles(options) ==
    IF ~Given(options.checkCycles) THEN NoThrow
    ELSE IF options.checkCycles.t # "boolean"
         THEN Throw("A boolean value is expected.", "options.checkCycles")
    ELSE NoThrow

validateConvergenceTest(options) ==
    IF ~Given(options.convergenceTest) THEN NoThrow
    ELSE IF options.convergenceTest.t # "function"
         THEN Throw("A function is expected.", "options.convergenceTest")
    ELSE IF options.convergenceTest.num < 3
         THEN Throw("The function should have at least 3 arguments.", "options.convergenceTest")
    ELSE NoThrow

\* the first of a list of validations that throws
FirstThrow(checks) ==
    IF \E i \in 1..Len(checks) : checks[i] # NoThrow
    THEN checks[CHOOSE i \in 1..Len(checks) :
                  checks[i] # NoThrow /\ \A j \in 1..(i - 1) : checks[j] = NoThrow]
    ELSE NoThrow

\* the option validation of iterate, in the order of the code
validateOptions(native, options) ==
    FirstThrow(<<validateMaxError(native, options), validateMaxSteps(native, options),
                 validateCheckCycles(options), validateConvergenceTest(options)>>)

\* the options in effect once the validation has passed
Effective(options) ==
    [maxError |-> IF Given(options.maxError) THEN options.maxError
                  ELSE defaultOptions.maxError,
     maxSteps |-> IF Given(options.maxSteps) THEN options.maxSteps
                  ELSE defaultOptions.maxSteps,
     checkCycles |-> IF Given(options.checkCycles) THEN options.checkCycles.num = 1
                     ELSE TRUE,
     convergenceTest |-> IF Given(options.convergenceTest) THEN options.convergenceTest.id
                         ELSE defaultOptions.convergenceTest.id]

\* the warning of the scan for unknown keys: extra lists the keys of the
\* options object that are no known option, in the order for-in meets them
warningOf(options) == IF options.extra = <<>> THEN "" ELSE Head(options.extra)

\* options.hasOwnProperty(arg) calls the options object's own property of that
\* name when it has one, and throws a TypeError when that is no function
ScanThrows(options) == \E i \in 1..Len(options.extra) : options.extra[i] = "hasOwnProperty"

\* ------------------------------------------------------------- the caller's functions
\* the functions a caller passes as f: x -> -x, x -> 1, x -> trunc(x / 2),
\* x -> x * x, x -> x + 1, x -> 0 / 0
UserMaps == {"neg", "const", "half", "square", "succ", "nan"}

Half(a) == IF a = NaN \/ IsInfinite(a) THEN a ELSE Sign(a) * (Abs(a) \div 2)

ApplyUser(id, a) ==
    CASE id = "neg" -> Neg(a)
      [] id = "const" -> 1
      [] id = "half" -> Half(a)
      [] id = "square" -> Mul(a, a)
      [] id = "succ" -> Add(a, 1)
      [] OTHER -> NaN

\* the sequences a caller passes as alphan or betan: n -> 1, n -> n mod 2
UserSequences == {"one", "alt"}

ApplySequence(id, k) ==
    CASE id = "one" -> 1
      [] OTHER -> k % 2

\* ------------------------------------------------------------- the arguments
FArgs == {JSString, JSFun(2, "succ")} \cup {JSFun(1, id) : id \in UserMaps}
F2Args == {JSString, JSFun(1, "succ")} \cup {JSFun(2, id) : id \in UserMaps}
X0Args == {JSNum(1, 1), JSNum(2, 1), JSNaN, JSInf, JSString}
LambdaArgs == {JSNum(0, 1), JSNum(1, 1), JSNum(0 - 1, 1), JSNum(2, 1), JSNaN}
SequenceArgs == {Undefined, JSFun(2, "one")} \cup {JSFun(1, id) : id \in UserSequences}
MaxErrorArgs ==
    {Undefined, JSNaN, JSNum(0, 1), JSNum(1, 2 * MachineEpsilonDen), JSNum(2, 1)}
MaxStepsArgs ==
    {Undefined, JSNaN, JSNum(1, 2), JSNum(1, 1), JSNum(3, 2), JSNum(2, 1)}
CheckCyclesArgs == {Undefined, JSBool(TRUE), JSBool(FALSE), JSString}
ConvergenceTestArgs ==
    {Undefined, JSString, JSFun(2, "custom"), JSFun(3, "absolute"), JSFun(5, "custom")}
\* the key hasOwnProperty is one whose value is no function
ExtraKeys == {<<>>, <<"steps", "tol">>, <<"hasOwnProperty">>}

KeysSet(o) == {k \in knownOptions : Given(o[k])}

\* the options objects: at most two of the four known options are set
OptionsArgs ==
    {o \in [maxError : MaxErrorArgs, maxSteps : MaxStepsArgs,
            checkCycles : CheckCyclesArgs, convergenceTest : ConvergenceTestArgs,
            extra : ExtraKeys] : Cardinality(KeysSet(o)) <= 2}

\* ------------------------------------------------------------- state
VARIABLES
    pc,          \* "idle", "running" (in the loop of iterate), "returned"
    native,      \* the host provides Number.isFinite (else the polyfill is installed)
    call,        \* the entry point called and the arguments the transition uses
    cfg,         \* maxError, maxSteps, checkCycles, convergenceTest of iterate
    values, x, xprev1, xprev2, n, stop,
    res,         \* the result object under construction
    result,      \* the value the entry point returned
    offending,   \* history: the arguments of the call that break their contract
    fCalls,      \* history: the invocations of the caller's f
    testCalls,   \* history: the invocations of the convergence test
    lastTest,    \* history: what the convergence test returned in the last step
    testArgs,    \* history: the arguments of the last call of the convergence test
    everTest     \* history: the convergence test has returned true in some step

vars == <<pc, native, call, cfg, values, x, xprev1, xprev2, n, stop, res, result,
          offending, fCalls, testCalls, lastTest, testArgs, everTest>>

\* the arguments of a call convergenceTest(maxError, x, xprev1, xprev2, values)
TestArgs(maxError, a, ap1, ap2, vals) ==
    [maxError |-> maxError, x |-> a, xprev1 |-> ap1, xprev2 |-> ap2, values |-> vals]
NoArgs == TestArgs(Undefined, 0, 0, 0, <<>>)

NoCall == [entry |-> "", f |-> "", lambda |-> 0, alphan |-> Undefined, betan |-> Undefined,
           x0 |-> 0, extra |-> <<>>]
NoRes == [errorMessage |-> NoMsg, warningMessage |-> ""]

\* a returned value: keys are the properties it carries
Value(keys, errorMessage, errorArgument, warningMessage, vals, numSteps, x0, xn) ==
    [keys |-> keys, errorMessage |-> errorMessage, errorArgument |-> errorArgument,
     warningMessage |-> warningMessage, values |-> vals, numSteps |-> numSteps,
     x0 |-> x0, xn |-> xn]
NoValue == Value({}, NoMsg, "", "", <<>>, 0, 0, 0)
\* the object a failed validation throws, returned by the catch
ThrownValue(t) == Value({"errorMessage", "errorArgument"}, t.errorMessage, t.errorArgument,
                        "", <<>>, 0, 0, 0)
\* the TypeError of a call of something that is no function, returned by the catch
TypeErrorValue == Value({"message", "stack"}, NoMsg, "", "", <<>>, 0, 0, 0)

Init ==
    /\ pc = "idle"
    /\ native \in BOOLEAN
    /\ call = NoCall
    /\ cfg = Effective([maxError |-> Undefined, maxSteps |-> Undefined,
                        checkCycles |-> Undefined, convergenceTest |-> Undefined])
    /\ values = <<>>
    /\ x = 0 /\ xprev1 = 0 /\ xprev2 = 0 /\ n = 0
    /\ stop = FALSE
    /\ res = NoRes
    /\ result = NoValue
    /\ offending = {}
    /\ fCalls = 0 /\ testCalls = 0
    /\ lastTest = FALSE /\ everTest = FALSE
    /\ testArgs = NoArgs

\* ------------------------------------------------------------- the transition functions
\* K of krasnoselskii
K(f, lambda, a) == Add(Mul(Sub(1, lambda), a), Mul(lambda, ApplyUser(f, a)))

\* variant of M: the sequence is read at the index after the increment
MNextIndex(f, alphan, a, k) ==
    LET al == ApplySequence(alphan.id, k + 1)
    IN  Add(Mul(Sub(1, al), a), Mul(al, ApplyUser(f, a)))

\* M of mann
M(f, alphan, a, k) ==
    LET al == ApplySequence(alphan.id, k)
    IN  Add(Mul(Sub(1, al), a), Mul(al, ApplyUser(f, a)))

\* I of ishikawa
I(f, alphan, betan, a, k) ==
    LET al == ApplySequence(alphan.id, k)
        be == ApplySequence(betan.id, k)
        y == Add(Mul(Sub(1, be), a), Mul(be, ApplyUser(f, a)))
    IN  Add(Mul(Sub(1, al), a), Mul(al, ApplyUser(f, y)))

\* calling c.alphan or c.betan throws a TypeError when it is no function
TransitionThrows(c) ==
    \/ c.entry \in {"mann", "ishikawa"} /\ c.alphan.t # "function"
    \/ c.entry = "ishikawa" /\ c.betan.t # "function"

\* f(x, n) as iterate calls it, for the function the entry point passed
Transition(c, a, k) ==
    CASE c.entry = "krasnoselskii" -> K(c.f, c.lambda, a)
      [] c.entry = "mann" -> M(c.f, c.alphan, a, k)
      [] c.entry = "ishikawa" -> I(c.f, c.alphan, c.betan, a, k)
      [] OTHER -> ApplyUser(c.f, a)

\* the invocations of the caller's f in one call of the transition function
CallsPerStep(c) == IF c.entry = "ishikawa" THEN 2 ELSE 1

\* ------------------------------------------------------------- iterate
\* variant of ReachedMaxSteps: the counter is compared before it is incremented
ReachedMaxStepsEarly(k, maxSteps) ==
    maxSteps.t = "number" /\ (k + 1) * maxSteps.den = maxSteps.num

\* n === maxSteps
ReachedMaxSteps(k, maxSteps) == maxSteps.t = "number" /\ k * maxSteps.den = maxSteps.num

\* the convergence test in effect; custom is what a caller's own test returns
convergenceTest(id, custom, maxError, a, ap1, ap2) ==
    CASE id = "mixed" -> mixedErrorTest(maxError, a, ap1, ap2)
      [] id = "absolute" -> absoluteErrorTest(maxError, a, ap1)
      [] OTHER -> custom

\* variant of CycleAt: the scan starts at index 1
CycleAtFromOne(vals, a, k) == {i \in 1..(k - 1) : StrictEq(a, vals[i + 1])}

\* the indices i < k with x === values[i] (the sequence is 1-based here)
CycleAt(vals, a, k) == {i \in 0..(k - 1) : StrictEq(a, vals[i + 1])}
Min(S) == CHOOSE m \in S : \A o \in S : m <= o

\* variant of StepMessage: the budget is checked before the convergence test
StepMessageBudgetFirst(old, conv, vals, a, k) ==
    LET afterBudget == IF ReachedMaxSteps(k, cfg.maxSteps) THEN MaxIterMsg ELSE old
    IN  IF ~IsFiniteNum(native, a) THEN DivergentMsg
        ELSE IF cfg.checkCycles /\ CycleAt(vals, a, k) # {}
             THEN CycleMsg(Min(CycleAt(vals, a, k)), k)
        ELSE afterBudget

\* the error message after the checks of one step
StepMessage(old, conv, vals, a, k) ==
    LET afterBudget == IF ~conv /\ ReachedMaxSteps(k, cfg.maxSteps) THEN MaxIterMsg ELSE old
    IN  IF ~IsFiniteNum(native, a) THEN DivergentMsg
        ELSE IF cfg.checkCycles /\ CycleAt(vals, a, k) # {}
             THEN CycleMsg(Min(CycleAt(vals, a, k)), k)
        ELSE afterBudget

\* variant of StepStop: a repeat stops the run whatever checkCycles is
StepStopCyclesAlways(conv, vals, a, k) ==
    \/ conv
    \/ ReachedMaxSteps(k, cfg.maxSteps)
    \/ ~IsFiniteNum(native, a)
    \/ CycleAt(vals, a, k) # {}

\* stop after the checks of one step
StepStop(conv, vals, a, k) ==
    \/ conv
    \/ ReachedMaxSteps(k, cfg.maxSteps)
    \/ ~IsFiniteNum(native, a)
    \/ cfg.checkCycles /\ CycleAt(vals, a, k) # {}

\* the validation of iterate and the set-up of the loop; pre is what the
\* entry point's own validation threw
iterate(entry, pre, c, options, broken) ==
    LET t == IF pre # NoThrow THEN pre ELSE validateOptions(native, options)
    IN  /\ pc = "idle"
        /\ offending' = broken
        /\ IF t # NoThrow
           THEN /\ pc' = "returned"
                /\ result' = ThrownValue(t)
                /\ call' = [NoCall EXCEPT !.entry = entry]
                /\ UNCHANGED <<cfg, values, x, xprev1, xprev2, n, stop, res>>
           ELSE IF ScanThrows(options)
           THEN /\ pc' = "returned"
                /\ result' = TypeErrorValue
                /\ call' = [NoCall EXCEPT !.entry = entry, !.extra = options.extra]
                /\ UNCHANGED <<cfg, values, x, xprev1, xprev2, n, stop, res>>
           ELSE /\ pc' = "running"
                /\ call' = [c EXCEPT !.extra = options.extra]
                /\ cfg' = Effective(options)
                /\ res' = [NoRes EXCEPT !.warningMessage = warningOf(options)]
                /\ values' = <<c.x0>>
                /\ x' = c.x0 /\ xprev1' = c.x0 /\ xprev2' = c.x0
                /\ n' = 0
                /\ stop' = FALSE
                /\ UNCHANGED result
        /\ UNCHANGED <<native, fCalls, testCalls, lastTest, testArgs, everTest>>

\* variant of rollPrev2: xprev2 is never updated
rollPrev2Stale(xp1, xp2) == xp2

\* xprev2 = xprev1, after the checks of the step
rollPrev2(xp1, xp2) == xp1

\* one pass of the while loop
Step ==
    /\ pc = "running"
    /\ ~stop
    /\ n < MaxN
    /\ IF TransitionThrows(call)
       THEN /\ pc' = "returned"
            /\ result' = TypeErrorValue
            /\ UNCHANGED <<values, x, xprev1, xprev2, n, stop, res, fCalls, testCalls,
                           lastTest, testArgs, everTest>>
       ELSE \E custom \in BOOLEAN :
            LET a == Transition(call, x, n)
                vals == Append(values, a)
                k == n + 1
                conv == convergenceTest(cfg.convergenceTest, custom, cfg.maxError,
                                        a, xprev1, xprev2)
            IN  /\ x' = a
                /\ values' = vals
                /\ n' = k
                /\ stop' = StepStop(conv, vals, a, k)
                /\ res' = [res EXCEPT !.errorMessage = StepMessage(@, conv, vals, a, k)]
                /\ xprev2' = rollPrev2(xprev1, xprev2)
                /\ xprev1' = a
                /\ fCalls' = fCalls + CallsPerStep(call)
                /\ testCalls' = testCalls + 1
                /\ lastTest' = conv
                /\ testArgs' = TestArgs(cfg.maxError, a, xprev1, xprev2, vals)
                /\ everTest' = (everTest \/ conv)
                /\ UNCHANGED <<pc, result>>
    /\ UNCHANGED <<native, call, cfg, offending>>

\* variant of resValues: only the computed approximations are returned
resValuesComputed(vals) == Tail(vals)

\* res.values = values
resValues(vals) == vals

\* variant of XnKeys: res.xn is set whatever the outcome
XnKeysAlways(r) == {"xn"}

\* res.xn is set when no error message was recorded
XnKeys(r) == IF r.errorMessage = NoMsg THEN {"xn"} ELSE {}

\* the result of iterate once the loop has stopped
FillResult ==
    Value({"values", "numSteps", "x0"} \cup XnKeys(res)
              \cup (IF res.errorMessage = NoMsg THEN {} ELSE {"errorMessage"})
              \cup (IF res.warningMessage = "" THEN {} ELSE {"warningMessage"}),
          res.errorMessage, "", res.warningMessage, resValues(values), n, call.x0,
          IF XnKeys(res) = {} THEN 0 ELSE x)

Return ==
    /\ pc = "running"
    /\ stop
    /\ pc' = "returned"
    /\ result' = FillResult
    /\ UNCHANGED <<native, call, cfg, values, x, xprev1, xprev2, n, stop, res, offending,
                   fCalls, testCalls, lastTest, testArgs, everTest>>

\* ------------------------------------------------------------- the public entry points
\* history: the arguments that break the contract of the entry point: f is a function
\* of nargs parameters, x0 and lambda are finite numbers, lambda is in [0, 1],
\* and each option that is set is in its range
Broken(f, nargs, x0, lambda, options) ==
    {a \in {"f"} : f.t # "function" \/ f.num # nargs}
    \cup {a \in {"x0"} : x0.t # "number"}
    \cup {a \in {"lambda"} : lambda.t # "number" \/ lambda.num < 0 \/ lambda.num > lambda.den}
    \cup {a \in {"options.maxError"} :
            /\ Given(options.maxError)
            /\ \/ options.maxError.t # "number"
               \/ options.maxError.num <= 0
               \/ options.maxError.num * MachineEpsilonDen < options.maxError.den}
    \cup {a \in {"options.maxSteps"} :
            /\ Given(options.maxSteps)
            /\ \/ options.maxSteps.t # "number"
               \/ options.maxSteps.num < options.maxSteps.den}
    \cup {a \in {"options.checkCycles"} :
            Given(options.checkCycles) /\ options.checkCycles.t # "boolean"}
    \cup {a \in {"options.convergenceTest"} :
            /\ Given(options.convergenceTest)
            /\ \/ options.convergenceTest.t # "function"
               \/ options.convergenceTest.num < 3}

validateLambda(lambda) ==
    IF ~IsFiniteJS(native, lambda) THEN Throw("A finite real number is expected.", "lambda")
    ELSE IF lambda.t = "number" /\ (lambda.num < 0 \/ lambda.num > lambda.den)
         THEN Throw("A real number between 0 and 1 is expected.", "lambda")
    ELSE NoThrow

\* the check mann and ishikawa make under "validate alphan" and "validate
\* betan": it tests f, not the sequence
validateSequence(f, name) ==
    IF f.t # "function" THEN Throw("A function is expected.", name)
    ELSE IF f.num # 1 THEN Throw("The function should have exactly 1 argument.", name)
    ELSE NoThrow

module_iterate ==
    /\ pc = "idle"
    /\ \E f \in F2Args, x0 \in X0Args, options \in OptionsArgs :
        iterate("iterate", validatefx0(native, f, 2, x0),
                [NoCall EXCEPT !.entry = "iterate", !.f = f.id, !.x0 = ToNum(x0)],
                options, Broken(f, 2, x0, JSNum(0, 1), options))

module_picard ==
    /\ pc = "idle"
    /\ \E f \in FArgs, x0 \in X0Args, options \in OptionsArgs :
        iterate("picard", validatefx0(native, f, 1, x0),
                [NoCall EXCEPT !.entry = "picard", !.f = f.id, !.x0 = ToNum(x0)],
                options, Broken(f, 1, x0, JSNum(0, 1), options))

module_krasnoselskii ==
    /\ pc = "idle"
    /\ \E f \in FArgs, lambda \in LambdaArgs, x0 \in X0Args, options \in OptionsArgs :
        iterate("krasnoselskii",
                FirstThrow(<<validatefx0(native, f, 1, x0), validateLambda(lambda)>>),
                [NoCall EXCEPT !.entry = "krasnoselskii", !.f = f.id,
                               !.lambda = ToNum(lambda), !.x0 = ToNum(x0)],
                options, Broken(f, 1, x0, lambda, options))

module_mann ==
    /\ pc = "idle"
    /\ \E f \in FArgs, alphan \in SequenceArgs, x0 \in X0Args, options \in OptionsArgs :
        iterate("mann",
                FirstThrow(<<validatefx0(native, f, 1, x0), validateSequence(f, "alphan")>>),
                [NoCall EXCEPT !.entry = "mann", !.f = f.id, !.alphan = alphan,
                               !.x0 = ToNum(x0)],
                options, Broken(f, 1, x0, JSNum(0, 1), options))

module_ishikawa ==
    /\ pc = "idle"
    /\ \E f \in FArgs, alphan \in SequenceArgs, betan \in SequenceArgs, x0 \in X0Args,
       options \in OptionsArgs :
        iterate("ishikawa",
                FirstThrow(<<validatefx0(native, f, 1, x0), validateSequence(f, "alphan"),
                             validateSequence(f, "betan")>>),
                [NoCall EXCEPT !.entry = "ishikawa", !.f = f.id, !.alphan = alphan,
                               !.betan = betan, !.x0 = ToNum(x0)],
                options, Broken(f, 1, x0, JSNum(0, 1), options))

Next ==
    \/ module_iterate
    \/ module_picard
    \/ module_krasnoselskii
    \/ module_mann
    \/ module_ishikawa
    \/ Step
    \/ Return

Spec == Init /\ [][Next]_vars

\* ------------------------------------------------------------- properties
InLoop == pc = "running"
Returned == pc = "returned"
\* the returned value is the result object of iterate
RunResult == Returned /\ "values" \in result.keys
DefaultCfg == cfg = Effective([maxError |-> Undefined, maxSteps |-> Undefined,
                               checkCycles |-> Undefined, convergenceTest |-> Undefined])
Last(vals) == vals[Len(vals)]
AllReal(vals) == \A i \in 1..Len(vals) : IsReal(vals[i])
Distinct(vals) == \A i, j \in 1..Len(vals) : i # j => vals[i] # vals[j]

\* C1: a run of a convergent contractive map (x -> 1 and x -> trunc(x / 2)
\* reach their fixed point exactly) from a finite x0 with the default
\* configuration ends Converged within maxSteps: no errorMessage, xn set, and
\* the mixed error test holds on the last elements of the sequence.
C1_ContractiveMapConverges ==
    (RunResult /\ call.entry \in {"iterate", "picard"} /\ call.f \in {"const", "half"}
       /\ IsReal(call.x0) /\ DefaultCfg)
    => /\ "errorMessage" \notin result.keys
       /\ "xn" \in result.keys
       /\ result.numSteps * cfg.maxSteps.den <= cfg.maxSteps.num
       /\ mixedErrorTest(cfg.maxError, Last(result.values), result.values[result.numSteps],
                         IF result.numSteps >= 2 THEN result.values[result.numSteps - 1]
                         ELSE call.x0)

\* C2: after every completed step of the loop, and in every run result
\* returned, the sequence has numSteps + 1 elements.
C2_LengthIsStepsPlusOne ==
    /\ InLoop => Len(values) = n + 1
    /\ RunResult => Len(result.values) = result.numSteps + 1

C2_Witness ==
    RunResult /\ result.numSteps >= 2 /\ "errorMessage" \in result.keys

\* C3: for every maxSteps the validation accepts, the step count never
\* exceeds maxSteps, in the loop and in the returned result.
C3_StepsWithinBudget ==
    /\ (InLoop /\ cfg.maxSteps.t = "number") => n * cfg.maxSteps.den <= cfg.maxSteps.num
    /\ (RunResult /\ cfg.maxSteps.t = "number")
       => result.numSteps * cfg.maxSteps.den <= cfg.maxSteps.num

RunMessages == {MaxIterMsg, DivergentMsg} \cup {CycleMsg(i, k) : i \in 0..MaxN, k \in 0..MaxN}

\* C4: a returned value with an errorMessage has no xn; a run result has xn
\* exactly when it has no errorMessage, and then xn is the last element of the
\* sequence; an errorMessage of a run result names one terminal condition
\* (budget exhausted, diverged or cycled).
C4_XnIffNoError ==
    Returned =>
       /\ "errorMessage" \in result.keys => "xn" \notin result.keys
       /\ RunResult =>
            /\ ("xn" \in result.keys) <=> ("errorMessage" \notin result.keys)
            /\ "xn" \in result.keys => result.xn = Last(result.values)
            /\ "errorMessage" \in result.keys => result.errorMessage \in RunMessages
            /\ "errorMessage" \notin result.keys => result.errorMessage = NoMsg

C4_Witness ==
    RunResult /\ "xn" \in result.keys /\ result.numSteps >= 2 /\ result.xn # call.x0

\* the indices of the earlier elements equal to the last one
Repeats == {i \in 0..(n - 1) : values[i + 1] = x}

\* C5: with checkCycles on, a step whose finite new value equals an earlier
\* element values[i] stops the run with the cycle error naming i and n; no
\* repeat is passed over while the run goes on, so that step is the first
\* one; x -> -x from 1 stops at step 2 with <<1, -1, 1>> and a cycle between
\* #0 and #2.
C5_CycleStopsRun ==
    /\ ((InLoop \/ RunResult) /\ cfg.checkCycles /\ n >= 1 /\ IsReal(x) /\ Repeats # {})
       => /\ stop
          /\ \A i \in Repeats : res.errorMessage = CycleMsg(i, n)
          /\ RunResult => /\ result.errorMessage = res.errorMessage
                          /\ "xn" \notin result.keys
                          /\ result.numSteps = n
                          /\ result.values = values
    /\ (InLoop /\ ~stop /\ cfg.checkCycles)
       => \A i, j \in 1..Len(values) : (i # j /\ IsReal(values[i])) => values[i] # values[j]
    /\ (RunResult /\ call.entry = "picard" /\ call.f = "neg" /\ call.x0 = 1 /\ DefaultCfg)
       => /\ result.values = <<1, 0 - 1, 1>>
          /\ result.numSteps = 2
          /\ result.errorMessage = CycleMsg(0, 2)

C5_Witness ==
    /\ RunResult /\ call.entry = "picard" /\ call.f = "neg" /\ call.x0 = 1 /\ DefaultCfg
    /\ result.errorMessage = CycleMsg(0, 2)

\* C6: a step whose new value is not finite stops the run with the Diverged
\* error, whatever the convergence test returned and whether or not the budget
\* was reached; the value is the last element of the returned sequence, the
\* earlier elements are finite, the step is counted and xn is absent.
C6_NonFiniteStops ==
    ((InLoop \/ RunResult) /\ n >= 1 /\ ~IsReal(x))
    => /\ stop
       /\ res.errorMessage = DivergentMsg
       /\ Len(values) = n + 1 /\ Last(values) = x
       /\ \A i \in 1..n : IsReal(values[i])
       /\ RunResult => /\ result.errorMessage = DivergentMsg
                       /\ "errorMessage" \in result.keys
                       /\ "xn" \notin result.keys
                       /\ result.numSteps = n
                       /\ Last(result.values) = x

\* C7: when the values stay finite, never repeat and the convergence test
\* never holds, a run with maxSteps = N (an integer >= 1) makes exactly N
\* steps and returns numSteps = N, the budget message, no xn and the N + 1
\* elements.
C7_BudgetExhausted ==
    (RunResult /\ cfg.maxSteps.t = "number" /\ cfg.maxSteps.den = 1
       /\ AllReal(values) /\ Distinct(values) /\ ~everTest)
    => /\ result.numSteps = cfg.maxSteps.num
       /\ testCalls = cfg.maxSteps.num
       /\ result.errorMessage = MaxIterMsg
       /\ "errorMessage" \in result.keys
       /\ "xn" \notin result.keys
       /\ result.values = values
       /\ Len(result.values) = cfg.maxSteps.num + 1

C7_Witness ==
    /\ RunResult /\ cfg.maxSteps = JSNum(2, 1) /\ AllReal(values) /\ Distinct(values)
    /\ ~everTest /\ result.errorMessage = MaxIterMsg /\ result.numSteps = 2

\* C8: krasnoselskii with lambda = 0, a unary f with finite values and a
\* finite x0, under the default configuration: every element is x0 and the run
\* stops converged after one step, with xn = x0 and no errorMessage.
C8_LambdaZeroConverges ==
    (RunResult /\ call.entry = "krasnoselskii" /\ call.lambda = 0 /\ call.f # "nan"
       /\ IsReal(call.x0) /\ DefaultCfg)
    => /\ \A i \in 1..Len(result.values) : result.values[i] = call.x0
       /\ result.numSteps = 1
       /\ "xn" \in result.keys /\ result.xn = call.x0
       /\ "errorMessage" \notin result.keys

\* C9: when an argument of the call breaks its contract, the entry point
\* returns a value with errorMessage and an errorArgument naming such an
\* argument; the loop is never entered, f and the convergence test are never
\* called and no sequence is returned.
C9_ValidationShortCircuits ==
    offending # {}
    => /\ ~InLoop
       /\ fCalls = 0 /\ testCalls = 0
       /\ Returned => /\ {"errorMessage", "errorArgument"} \subseteq result.keys
                      /\ result.errorArgument \in offending
                      /\ "values" \notin result.keys

\* C10: an entry point returns either a run result (values, numSteps, x0) or
\* an error value carrying errorMessage.
C10_ResultShaped ==
    Returned => \/ {"values", "numSteps", "x0"} \subseteq result.keys
                \/ "errorMessage" \in result.keys

\* the sequence arguments of the call that are no function of one parameter
BadSequences ==
    {a \in {"alphan"} : call.entry \in {"mann", "ishikawa"}
                        /\ (call.alphan.t # "function" \/ call.alphan.num # 1)}
    \cup {a \in {"betan"} : call.entry = "ishikawa"
                            /\ (call.betan.t # "function" \/ call.betan.num # 1)}

\* C11: when f, x0 and the options are valid but alphan (mann, ishikawa) or
\* betan (ishikawa) is no function of one parameter, the call returns a
\* validation error whose errorArgument names that argument, and no step runs.
C11_SequencesValidated ==
    (pc # "idle" /\ offending = {} /\ BadSequences # {})
    => /\ ~InLoop
       /\ fCalls = 0 /\ testCalls = 0
       /\ Returned => /\ {"errorMessage", "errorArgument"} \subseteq result.keys
                      /\ result.errorArgument \in BadSequences

\* C12: the step budget alone bounds the run: while the loop goes on, fewer
\* than maxSteps steps have been made, so that the loop reaches a terminal
\* state after at most maxSteps steps.
C12_BudgetTerminates ==
    (InLoop /\ ~stop /\ cfg.maxSteps.t = "number")
    => n * cfg.maxSteps.den < cfg.maxSteps.num

\* ------------------------------------------------------------- relativeErrorTest alone
\* a call of fixpoint.errtest.relative(maxError, a, b): a is held in x, b in
\* xprev1, the tolerance in cfg.maxError and the value returned in lastTest
RelativeTolerances == {JSNum(1, 10000000), JSNum(1, 2), JSNum(2, 1)}

InitRelative ==
    /\ pc = "relative"
    /\ native \in BOOLEAN
    /\ call = NoCall
    /\ cfg \in {[Effective([maxError |-> Undefined, maxSteps |-> Undefined,
                            checkCycles |-> Undefined, convergenceTest |-> Undefined])
                   EXCEPT !.maxError = e] : e \in RelativeTolerances}
    /\ values = <<>>
    /\ x \in Finite \cup {PosInf, NegInf, NaN}
    /\ xprev1 \in Finite \cup {PosInf, NegInf, NaN}
    /\ xprev2 = 0 /\ n = 0
    /\ stop = FALSE
    /\ res = NoRes
    /\ result = NoValue
    /\ offending = {}
    /\ fCalls = 0 /\ testCalls = 0
    /\ lastTest = FALSE /\ everTest = FALSE
    /\ testArgs = NoArgs

errtest_relative ==
    /\ pc = "relative"
    /\ pc' = "tested"
    /\ lastTest' = relativeErrorTest(cfg.maxError, x, xprev1)
    /\ testCalls' = testCalls + 1
    /\ UNCHANGED <<native, call, cfg, values, x, xprev1, xprev2, n, stop, res, result,
                   offending, fCalls, testArgs, everTest>>

SpecRelative == InitRelative /\ [][errtest_relative]_vars

C14_UnknownKeyWarns ==
    (pc # "idle" /\ call.extra # <<>> /\ offending = {}
       /\ call.entry \in {"iterate", "picard", "krasnoselskii"})
    => /\ InLoop => res.warningMessage = Head(call.extra)
       /\ Returned => /\ RunResult
                      /\ "warningMessage" \in result.keys
                      /\ result.warningMessage = Head(call.extra)

\* C15: when the convergence test holds at the step where the step count
\* equals maxSteps, and the new value is finite and no repeat, the run ends
\* Converged: xn is set and no budget message is recorded.
C15_ConvergenceBeforeBudget ==
    ((InLoop \/ RunResult) /\ n >= 1 /\ lastTest /\ ReachedMaxSteps(n, cfg.maxSteps)
       /\ IsReal(x) /\ Repeats = {})
    => /\ stop
       /\ res.errorMessage = NoMsg
       /\ RunResult => /\ "xn" \in result.keys /\ result.xn = x
                       /\ "errorMessage" \notin result.keys
                       /\ result.numSteps = n

C15_Witness ==
    /\ RunResult /\ n = 2 /\ lastTest /\ ReachedMaxSteps(n, cfg.maxSteps)
    /\ IsReal(x) /\ Repeats = {} /\ "xn" \in result.keys

\* C16: the convergence test is called once in each step, after the new
\* value is appended, with (maxError, values[n], values[n-1], values[n-2],
\* values), values holding values[n] already; at step 1 both previous values
\* are x0.
C16_TestArguments ==
    /\ (InLoop /\ n = 0) => (testCalls = 0 /\ testArgs = NoArgs)
    /\ ((InLoop \/ RunResult) /\ n >= 1)
       => /\ testCalls = n
          /\ testArgs = TestArgs(cfg.maxError, values[n + 1], values[n],
                                 IF n >= 2 THEN values[n - 1] ELSE call.x0, values)
          /\ Len(testArgs.values) = n + 1
          /\ values[1] = call.x0

C16_Witness ==
    InLoop /\ n >= 3 /\ testArgs.xprev2 # call.x0 /\ testArgs.xprev2 = values[n - 1]

\* C17: the transition function is called with the step index before the
\* increment: values[k+1] = transition(values[k], k) for every k below the
\* step count; for mann, values[k+1] = (1 - alphan(k)) * values[k] +
\* alphan(k) * f(values[k]), the first step using alphan(0).
C17_TransitionIndex ==
    (InLoop \/ RunResult)
    => /\ \A k \in 0..(n - 1) : values[k + 2] = Transition(call, values[k + 1], k)
       /\ (call.entry = "mann" /\ call.alphan.t = "function")
          => \A k \in 0..(n - 1) :
                values[k + 2] =
                    Add(Mul(Sub(1, ApplySequence(call.alphan.id, k)), values[k + 1]),
                        Mul(ApplySequence(call.alphan.id, k), ApplyUser(call.f, values[k + 1])))
       /\ RunResult => (result.values = values /\ result.numSteps = n)

C17_Witness ==
    /\ RunResult /\ call.entry = "mann" /\ call.alphan.t = "function"
    /\ call.alphan.id = "alt" /\ call.f = "succ"
    /\ n >= 3 /\ values[2] = values[1] /\ values[3] # values[2]

\* C18: with checkCycles off, a repeat of an earlier value never stops the
\* run and the cycle error is never recorded: a run stops only Converged,
\* Diverged or BudgetExhausted; x -> -x from 1 with the mixed error test
\* runs to the step budget.
C18_NoCycleCheck ==
    ((InLoop \/ RunResult) /\ ~cfg.checkCycles)
    => /\ res.errorMessage \in {NoMsg, MaxIterMsg, DivergentMsg}
       /\ stop => \/ lastTest
                  \/ ReachedMaxSteps(n, cfg.maxSteps)
                  \/ ~IsFiniteNum(native, x)
       /\ (n >= 1 /\ Repeats # {} /\ ~lastTest /\ ~ReachedMaxSteps(n, cfg.maxSteps)
             /\ IsFiniteNum(native, x))
          => (~stop /\ res.errorMessage = NoMsg)
       /\ RunResult
          => /\ "errorMessage" \in result.keys
                => result.errorMessage \in {MaxIterMsg, DivergentMsg}
             /\ (call.entry = "picard" /\ call.f = "neg" /\ call.x0 = 1
                   /\ cfg.convergenceTest = defaultOptions.convergenceTest.id
                   /\ cfg.maxError = defaultOptions.maxError)
                => /\ result.errorMessage = MaxIterMsg
                   /\ ReachedMaxSteps(result.numSteps, cfg.maxSteps)
                   /\ \A i \in 1..Len(result.values) :
                         result.values[i] = IF i % 2 = 1 THEN 1 ELSE 0 - 1

C18_Witness ==
    /\ RunResult /\ ~cfg.checkCycles
    /\ call.entry = "picard" /\ call.f = "neg" /\ call.x0 = 1
    /\ cfg.convergenceTest = defaultOptions.convergenceTest.id
    /\ result.values = <<1, 0 - 1, 1>> /\ result.errorMessage = MaxIterMsg

\* C19: with checkCycles on, while the run goes on the elements of the
\* sequence are finite and pairwise distinct, and a run that ends without
\* errorMessage returns pairwise distinct elements: a step where the
\* convergence test holds on a repeated value is not reported Converged.
C19_RunningDistinctFinite ==
    /\ (InLoop /\ ~stop /\ cfg.checkCycles) => (AllReal(values) /\ Distinct(values))
    /\ (RunResult /\ cfg.checkCycles /\ "errorMessage" \notin result.keys)
       => Distinct(result.values)
====
